---- MODULE Spec2Model ----
(***************************************************************************)
(* Basic-circuits witness generator                                        *)
(* (core/bin/zksync_core/src/witness_generator/basic_circuits.rs).         *)
(*                                                                         *)
(* Workers run the job-processor loop over a shared job store (prover      *)
(* database), a chain-data store (main database) and an object store.      *)
(* The relational accessors (witness_generator_dal, prover_dal,            *)
(* blocks_dal, storage_dal) and the job-processor loop live outside the    *)
(* file; they are modelled from the specification's description of them.    *)
(***************************************************************************)
EXTENDS Integers, Sequences, FiniteSets, TLC

\* ------------------------------------------------------------------ bounds
NumBlocks == 2
NumWorkers == 2
MaxCircuits == 2
NumHashes == 3
\* config.max_attempts and config.witness_generation_timeout (in clock ticks)
MaxAttempts == 2
Timeout == 1
\* threads of the async runtime that polls the workers' tasks
ExecutorThreads == 1

\* Block ids are u32 in the program; the model keeps IdBits bits of them.
IdBits == 4
\* the value `L1BatchNumber(0) - 1` wraps to without overflow checks (u32::MAX)
MaxBlockId == 2^IdBits - 1

Blocks == 1..NumBlocks
Workers == 1..NumWorkers
Hashes == 1..NumHashes
NoJob == 0
NoPercentage == -1
\* values of config.blocks_proving_percentage: Option<usize>
Percentages == {NoPercentage, 0, 50, 100}
\* config.dump_arguments_for_blocks: the last block is listed, the others are not
dump_arguments_for_blocks == {NumBlocks}

VARIABLES
  \* chain-data store (connection_pool)
  headers,        \* block ids that have a block header
  state_roots,    \* block ids whose state root is recorded
  skip_proof,     \* block ids marked by set_skip_proof_for_l1_batch
  deps,           \* [bootloader, default_aa, used, stored]: system contract hashes of
                  \* the header, its used_contract_hashes, hashes in factory_deps
  \* job store (prover_connection_pool)
  status,         \* block -> queued | in_progress | successful | failed | skipped
  attempts,       \* block -> recorded attempt count
  lease_age,      \* block -> ticks since processing_started_at, capped at Timeout + 1
                  \* (read only while the job is in progress: kept 0 otherwise)
  agg_jobs,       \* block -> sequence of aggregation-job records
  prover_jobs,    \* block -> sequence of fan-out prover job records
  \* object store
  objects,        \* set of stored object keys
  \* configuration
  percentage,     \* blocks_proving_percentage, or NoPercentage
  last_batch,     \* last_l1_batch_to_process
  overflow_checks,\* whether the build panics on integer overflow
  \* workers (one job-processor loop each)
  pc, job, started_at, art, tx, ret, err,
  \* input/outcome of a single call of the input builder and of the bytecode check
  arg_block, result

vars == <<headers, state_roots, skip_proof, deps, status, attempts, lease_age,
          agg_jobs, prover_jobs, objects, percentage, last_batch, overflow_checks,
          pc, job, started_at, art, tx, ret, err, arg_block, result>>

chain_vars == <<headers, state_roots, skip_proof, deps>>
job_vars == <<status, attempts, lease_age, agg_jobs, prover_jobs>>
config_vars == <<percentage, last_batch, overflow_checks>>
call_vars == <<arg_block, result>>

\* ------------------------------------------------------------ conversions
\* H256 is a 32-byte hash, U256 the 256-bit integer with the same big-endian bytes.
h256_to_u256(h) == h[2]
u256_to_h256(u) == <<"H256", u>>

\* ------------------------------------------------ job store accessors (DAL)
Min(S) == CHOOSE x \in S : \A y \in S : x <= y

LeaseExpired(b, timeout) == lease_age[b] > timeout

\* witness_generator_dal().get_next_basic_circuit_witness_job: the oldest job that is
\* queued, or in progress with an expired lease, or failed below the attempt cap,
\* among the blocks up to last_l1_batch_to_process.
Eligible(b, timeout, max_attempts, last) ==
  /\ b <= last
  /\ \/ status[b] = "queued"
     \/ status[b] = "in_progress" /\ LeaseExpired(b, timeout)
     \/ status[b] = "failed" /\ attempts[b] < max_attempts

get_next_basic_circuit_witness_job(timeout, max_attempts, last) ==
  LET E == {b \in Blocks : Eligible(b, timeout, max_attempts, last)}
  IN IF E = {} THEN NoJob ELSE Min(E)

\* get_next_job passing a timeout one tick longer than the configured one.
get_next_job_longer_timeout ==
  get_next_basic_circuit_witness_job(Timeout + 1, MaxAttempts, last_batch)

\* The block get_next_job returns to its caller, NoJob for None.
get_next_job == get_next_basic_circuit_witness_job(Timeout, MaxAttempts, last_batch)

Busy(w) == pc[w] \notin {"idle", "crashed"}

\* ------------------------------------------------------------ async runtime
\* The engine run inline in the async task instead of on the blocking pool.
engine_context_inline == "executor"

\* `tokio::task::spawn_blocking(move || { ... })`: where the CPU-heavy closure runs.
engine_context == "blocking_pool"

\* A worker whose task keeps an executor thread without yielding.
OnExecutor(w) == pc[w] = "engine" /\ engine_context = "executor"

\* An executor thread is there to poll worker w's task.
ExecutorFree(w) ==
  Cardinality({v \in Workers \ {w} : OnExecutor(v)}) < ExecutorThreads

\* The task that process_job awaits inline instead of spawning: its panic is the loop's.
unspawned_task_panic == "crashed"

\* `tokio::spawn(Self::process_job_impl(..))`: a panic of the spawned task ends the
\* task only, and the loop gets it as the Err of the JoinHandle.
spawned_task_panic == "panicked"

\* A clock tick: every running lease and every running job gets older.  Ages are kept
\* relative to now and capped one past the timeout, which keeps every comparison
\* `processing_started_at < now() - timeout` exact.
AgeCap == Timeout + 1
Older(a) == IF a < AgeCap THEN a + 1 ELSE a

Tick ==
  /\ lease_age' = [b \in Blocks |->
                     IF status[b] = "in_progress" THEN Older(lease_age[b]) ELSE lease_age[b]]
  /\ started_at' = [w \in Workers |->
                     IF Busy(w) THEN Older(started_at[w]) ELSE started_at[w]]
  /\ UNCHANGED <<chain_vars, status, attempts, agg_jobs, prover_jobs, objects,
                 config_vars, pc, job, art, tx, ret, err, call_vars>>

\* JobProcessor::get_next_job, then process_job spawning process_job_impl.
GetNextJob(w) ==
  /\ pc[w] = "idle"
  /\ ExecutorFree(w)
  /\ get_next_job # NoJob
  /\ LET b == get_next_job IN
       /\ status' = [status EXCEPT ![b] = "in_progress"]
       /\ lease_age' = [lease_age EXCEPT ![b] = 0]
       /\ job' = [job EXCEPT ![w] = b]
       /\ started_at' = [started_at EXCEPT ![w] = 0]
       /\ pc' = [pc EXCEPT ![w] = "spawned"]
  /\ UNCHANGED <<chain_vars, attempts, agg_jobs, prover_jobs, objects, config_vars,
                 art, tx, ret, err, call_vars>>

EmptyTx == [agg |-> <<>>, prover |-> <<>>, successful |-> FALSE]
NoArtifacts == [some |-> FALSE, circuits |-> 0]

\* The worker's locals once its loop iteration is over.
Release(w, next_pc) ==
  /\ pc' = [pc EXCEPT ![w] = next_pc]
  /\ job' = [job EXCEPT ![w] = NoJob]
  /\ started_at' = [started_at EXCEPT ![w] = 0]
  /\ art' = [art EXCEPT ![w] = NoArtifacts]
  /\ tx' = [tx EXCEPT ![w] = EmptyTx]
  /\ ret' = [ret EXCEPT ![w] = 0]
  /\ err' = [err EXCEPT ![w] = "none"]

\* ------------------------------------------------------- process_job_impl
\* rand::thread_rng().gen_range(1..100)
Draws == 1..99

\* The sampling test with an unset percentage read as 0.
should_skip_unset_as_zero(p, threshold) ==
  threshold > (IF p = NoPercentage THEN 0 ELSE p)

\* The sampling test on a draw counted from 0.
should_skip_zero_based(p, threshold) == p # NoPercentage /\ threshold - 1 > p

\* `if let Some(p) = config.blocks_proving_percentage { if threshold > p { skip } }`
should_skip(p, threshold) == p # NoPercentage /\ threshold > p

\* The sampling gate.  A skipped job first marks the block in the chain-data store;
\* a sampled job goes on to build its input.
SamplingGate(w) ==
  /\ pc[w] = "spawned"
  /\ ExecutorFree(w)
  /\ \E skip \in {should_skip(percentage, threshold) : threshold \in Draws} :
       IF skip
       THEN /\ skip_proof' = skip_proof \cup {job[w]}
            /\ pc' = [pc EXCEPT ![w] = "skip_marked"]
       ELSE /\ skip_proof' = skip_proof
            /\ pc' = [pc EXCEPT ![w] = "build"]
  /\ UNCHANGED <<headers, state_roots, deps, job_vars, objects, config_vars,
                 job, started_at, art, tx, ret, err, call_vars>>

\* The skip branch returning empty artifacts instead of None.
MarkSkippedReturningSome(w) ==
  /\ pc[w] = "skip_marked"
  /\ ExecutorFree(w)
  /\ status' = [status EXCEPT ![job[w]] = "skipped"]
  /\ lease_age' = [lease_age EXCEPT ![job[w]] = 0]
  /\ art' = [art EXCEPT ![w] = [some |-> TRUE, circuits |-> 0]]
  /\ pc' = [pc EXCEPT ![w] = "finished"]
  /\ UNCHANGED <<chain_vars, attempts, agg_jobs, prover_jobs, objects,
                 config_vars, job, started_at, tx, ret, err, call_vars>>

\* mark_witness_job_as_skipped, then `return None`: the spawned task is finished.
MarkSkipped(w) ==
  /\ pc[w] = "skip_marked"
  /\ ExecutorFree(w)
  /\ status' = [status EXCEPT ![job[w]] = "skipped"]
  /\ lease_age' = [lease_age EXCEPT ![job[w]] = 0]
  /\ art' = [art EXCEPT ![w] = NoArtifacts]
  /\ pc' = [pc EXCEPT ![w] = "finished"]
  /\ UNCHANGED <<chain_vars, attempts, agg_jobs, prover_jobs, objects,
                 config_vars, job, started_at, tx, ret, err, call_vars>>

\* ----------------------------- build_basic_circuits_witness_generator_input
\* `block_number - 1` on an unsigned id: wraps when overflow checks are off.
Pred(b) == (b - 1) % 2^IdBits

\* The builder with an absent root defaulted instead of expected.
build_outcome_root_defaulted(b) ==
  IF b \notin headers THEN "unwrap_none_block_header"
  ELSE IF b = 0 /\ overflow_checks THEN "subtract_with_overflow"
  ELSE IF Pred(b) \notin headers THEN "unwrap_none_previous_block_header"
  ELSE "ok"

\* The builder with the root looked up before the headers.
build_outcome_root_first(b) ==
  IF b = 0 /\ overflow_checks THEN "subtract_with_overflow"
  ELSE IF Pred(b) \notin state_roots THEN "root_hash_not_computed"
  ELSE IF b \notin headers THEN "unwrap_none_block_header"
  ELSE IF Pred(b) \notin headers THEN "unwrap_none_previous_block_header"
  ELSE "ok"

\* What the builder ends with for block b: "ok", or the panic that ends it.  The
\* lookups are made, and unwrapped, in this order.
build_outcome(b) ==
  IF b \notin headers THEN "unwrap_none_block_header"
  ELSE IF b = 0 /\ overflow_checks THEN "subtract_with_overflow"
  ELSE IF Pred(b) \notin headers THEN "unwrap_none_previous_block_header"
  ELSE IF Pred(b) \notin state_roots THEN "root_hash_not_computed"
  ELSE "ok"

BuildInput(w) ==
  /\ pc[w] = "build"
  /\ ExecutorFree(w)
  /\ LET r == build_outcome(job[w]) IN
       /\ pc' = [pc EXCEPT ![w] = IF r = "ok" THEN "generate" ELSE "panicked"]
       /\ err' = [err EXCEPT ![w] = IF r = "ok" THEN err[w] ELSE r]
  /\ UNCHANGED <<chain_vars, job_vars, objects, config_vars,
                 job, started_at, art, tx, ret, call_vars>>

\* ------------------------------------------------------- generate_witness
\* The hashes asked of the factory-deps table: the used hashes but the bootloader's.
requested_hashes(d) ==
  {u256_to_h256(u) : u \in {x \in d.used : x # h256_to_u256(d.bootloader)}}

\* storage_dal().get_factory_deps: the entries found, keyed by U256.
get_factory_deps(d, hashes) == {h256_to_u256(h) : h \in hashes \cap d.stored}

\* used_bytecodes after the default account's bytecode is inserted (keys of the map).
used_bytecodes(d) ==
  LET account_code_hash == h256_to_u256(d.default_aa)
      found == get_factory_deps(d, requested_hashes(d))
  IN IF account_code_hash \in d.used THEN found \cup {account_code_hash} ELSE found

\* The part of generate_witness before the engine runs: "ok" or the panic.
bytecode_outcome(d) ==
  IF d.bootloader \notin d.stored THEN "bootloader_bytecode_missing"
  ELSE IF d.default_aa \notin d.stored THEN "default_aa_bytecode_missing"
  ELSE IF Cardinality(requested_hashes(d)) # Cardinality(used_bytecodes(d))
       THEN "factory_deps_not_found"
  ELSE "ok"

\* basic_circuits.into_flattened_set().len(): fixed by the block's input.
CircuitCount(b) == ((b - 1) % MaxCircuits) + 1

\* generate_witness up to `drop(connection)`: the lookups and checks made on the async
\* task, then the hand-off of the closure.
GenerateWitness(w) ==
  /\ pc[w] = "generate"
  /\ ExecutorFree(w)
  /\ LET r == IF job[w] \notin headers THEN "unwrap_none_block_header"
              ELSE bytecode_outcome(deps)
     IN /\ pc' = [pc EXCEPT ![w] = IF r = "ok" THEN "engine" ELSE "panicked"]
        /\ err' = [err EXCEPT ![w] = IF r = "ok" THEN err[w] ELSE r]
  /\ UNCHANGED <<chain_vars, job_vars, objects, config_vars,
                 job, started_at, art, tx, ret, call_vars>>

\* Key of the object save_run_with_fixed_params_args_to_gcs puts.
run_with_fixed_params_input_url(b) == <<"run_with_fixed_params_input", b, 0>>

\* What the closure ends with: the put of the captured arguments is unwrapped before
\* run_with_fixed_params is called.
closure_outcome(listed, put_fails, engine_panics) ==
  IF listed /\ put_fails THEN "dump_arguments_put_failed"
  ELSE IF engine_panics THEN "engine_panic"
  ELSE "ok"

\* The closure on the blocking pool, and `.await.unwrap()` on its JoinHandle: a panic
\* of the closure becomes a panic of the spawned task.
RunWithFixedParams(w) ==
  /\ pc[w] = "engine"
  /\ \E put_fails \in BOOLEAN, engine_panics \in BOOLEAN :
       LET listed == job[w] \in dump_arguments_for_blocks
           r == closure_outcome(listed, put_fails, engine_panics)
       IN /\ objects' = IF listed /\ ~put_fails
                        THEN objects \cup {run_with_fixed_params_input_url(job[w])}
                        ELSE objects
          /\ IF r = "ok"
             THEN /\ pc' = [pc EXCEPT ![w] = "finished"]
                  /\ err' = err
                  /\ art' = [art EXCEPT ![w] =
                               [some |-> TRUE, circuits |-> CircuitCount(job[w])]]
             ELSE /\ pc' = [pc EXCEPT ![w] = spawned_task_panic]
                  /\ err' = [err EXCEPT ![w] = r]
                  /\ art' = art
  /\ UNCHANGED <<chain_vars, job_vars, config_vars, job, started_at, tx, ret, call_vars>>

\* ------------------------------------------------------------ save_failure
\* witness_generator_dal().mark_witness_job_as_failed: records the failure and
\* returns the attempt count.
mark_witness_job_as_failed(b) ==
  /\ status' = [status EXCEPT ![b] = "failed"]
  /\ attempts' = [attempts EXCEPT ![b] = attempts[b] + 1]
  /\ lease_age' = [lease_age EXCEPT ![b] = 0]

\* The give-up test with `>` for `>=`.
retries_exhausted_strict(n) == n > MaxAttempts

\* `if attempts >= self.config.max_attempts`
retries_exhausted(n) == n >= MaxAttempts

SaveFailureMark(w) ==
  /\ pc[w] = "panicked"
  /\ ExecutorFree(w)
  /\ mark_witness_job_as_failed(job[w])
  /\ ret' = [ret EXCEPT ![w] = attempts'[job[w]]]
  /\ pc' = [pc EXCEPT ![w] = "failure_recorded"]
  /\ UNCHANGED <<chain_vars, agg_jobs, prover_jobs, objects, config_vars,
                 job, started_at, art, tx, err, call_vars>>

SaveFailureSkip(w) ==
  /\ pc[w] = "failure_recorded"
  /\ ExecutorFree(w)
  /\ skip_proof' = IF retries_exhausted(ret[w]) THEN skip_proof \cup {job[w]} ELSE skip_proof
  /\ Release(w, "idle")
  /\ UNCHANGED <<headers, state_roots, deps, job_vars, objects, config_vars, call_vars>>

\* ------------------------------------------------------------- save_result
\* `None => ()`
SaveResultNone(w) ==
  /\ pc[w] = "finished"
  /\ ExecutorFree(w)
  /\ ~art[w].some
  /\ Release(w, "idle")
  /\ UNCHANGED <<chain_vars, job_vars, objects, config_vars, call_vars>>

\* Object keys: one per (block, artifact kind), and one per flattened circuit.
basic_circuits_url(b) == <<"basic_circuits", b, 0>>
basic_circuits_inputs_url(b) == <<"basic_circuits_inputs", b, 0>>
scheduler_witness_url(b) == <<"scheduler_witness", b, 0>>
circuit_types_and_urls(b, n) == [i \in 1..n |-> <<"circuit", b, i>>]

\* save_artifacts without the call of save_prover_input_artifacts.
artifact_puts_top_level_only(b, n) ==
  <<basic_circuits_url(b), basic_circuits_inputs_url(b), scheduler_witness_url(b)>>

\* save_artifacts without the put of the scheduler witness.
artifact_puts_no_scheduler(b, n) ==
  <<basic_circuits_url(b), basic_circuits_inputs_url(b)>> \o circuit_types_and_urls(b, n)

\* The puts of save_artifacts, in order.
artifact_puts(b, n) ==
  <<basic_circuits_url(b), basic_circuits_inputs_url(b), scheduler_witness_url(b)>>
    \o circuit_types_and_urls(b, n)

\* save_artifacts: every put is unwrapped, so the first one that fails ends the
\* loop iteration with the earlier objects written.
SaveArtifacts(w) ==
  /\ pc[w] = "finished"
  /\ ExecutorFree(w)
  /\ art[w].some
  /\ LET puts == artifact_puts(job[w], art[w].circuits) IN
     \E k \in 0..Len(puts) :
       /\ objects' = objects \cup {puts[i] : i \in 1..k}
       /\ IF k = Len(puts)
          THEN /\ pc' = [pc EXCEPT ![w] = "update_database"]
               /\ UNCHANGED <<job, started_at, art, tx, ret, err>>
          ELSE Release(w, "crashed")
  /\ UNCHANGED <<chain_vars, job_vars, config_vars, call_vars>>

\* --------------------------------------------------------- update_database
\* The statement run on the connection, outside the transaction: it takes effect at once.
TxWriteThrough(w, field, value) ==
  /\ tx' = tx
  /\ agg_jobs' = IF field = "agg" THEN [agg_jobs EXCEPT ![job[w]] = @ \o value]
                 ELSE agg_jobs
  /\ prover_jobs' = IF field = "prover" THEN [prover_jobs EXCEPT ![job[w]] = @ \o value]
                    ELSE prover_jobs
  /\ status' = IF field = "successful" THEN [status EXCEPT ![job[w]] = "successful"]
               ELSE status
  /\ lease_age' = IF field = "successful" THEN [lease_age EXCEPT ![job[w]] = 0]
                  ELSE lease_age
  /\ UNCHANGED attempts

\* A statement run on the transaction handle: buffered until the commit.
TxWrite(w, field, value) ==
  /\ tx' = [tx EXCEPT ![w][field] = value]
  /\ UNCHANGED job_vars

TxCreateAggregationJobs(w) ==
  /\ pc[w] = "update_database"
  /\ ExecutorFree(w)
  /\ LET b == job[w] IN
       TxWrite(w, "agg", <<[basic_circuits_url |-> basic_circuits_url(b),
                            basic_circuits_inputs_url |-> basic_circuits_inputs_url(b),
                            number_of_basic_circuits |->
                              Len(circuit_types_and_urls(b, art[w].circuits)),
                            scheduler_witness_url |-> scheduler_witness_url(b)]>>)
  /\ pc' = [pc EXCEPT ![w] = "tx_aggregation_jobs"]
  /\ UNCHANGED <<chain_vars, objects, config_vars, job, started_at, art, ret, err,
                 call_vars>>

TxInsertProverJobs(w) ==
  /\ pc[w] = "tx_aggregation_jobs"
  /\ ExecutorFree(w)
  /\ TxWrite(w, "prover", circuit_types_and_urls(job[w], art[w].circuits))
  /\ pc' = [pc EXCEPT ![w] = "tx_prover_jobs"]
  /\ UNCHANGED <<chain_vars, objects, config_vars, job, started_at, art, ret, err,
                 call_vars>>

TxMarkSuccessful(w) ==
  /\ pc[w] = "tx_prover_jobs"
  /\ ExecutorFree(w)
  /\ TxWrite(w, "successful", TRUE)
  /\ pc' = [pc EXCEPT ![w] = "tx_marked"]
  /\ UNCHANGED <<chain_vars, objects, config_vars, job, started_at, art, ret, err,
                 call_vars>>

\* transaction.commit(): the buffered statements take effect together.
TxCommit(w) ==
  /\ pc[w] = "tx_marked"
  /\ ExecutorFree(w)
  /\ LET b == job[w] IN
       /\ agg_jobs' = [agg_jobs EXCEPT ![b] = @ \o tx[w].agg]
       /\ prover_jobs' = [prover_jobs EXCEPT ![b] = @ \o tx[w].prover]
       /\ status' = [status EXCEPT ![b] = IF tx[w].successful THEN "successful" ELSE @]
       /\ lease_age' = [lease_age EXCEPT ![b] = IF tx[w].successful THEN 0 ELSE @]
  /\ Release(w, "idle")
  /\ UNCHANGED <<chain_vars, attempts, objects, config_vars, call_vars>>

InTransaction(w) ==
  pc[w] \in {"update_database", "tx_aggregation_jobs", "tx_prover_jobs", "tx_marked"}

\* A statement or the commit fails: the accessor panics, the transaction is dropped
\* and rolled back.
TxFail(w) ==
  /\ InTransaction(w)
  /\ ExecutorFree(w)
  /\ Release(w, "crashed")
  /\ UNCHANGED <<chain_vars, job_vars, objects, config_vars, call_vars>>

\* ------------------------------------------------------------- environment
\* The state root of block b is computed (roots are computed in block order).
ComputeRoot(b) ==
  /\ b \notin state_roots
  /\ b = 0 \/ b - 1 \in state_roots
  /\ state_roots' = state_roots \cup {b}
  /\ UNCHANGED <<headers, skip_proof, deps, job_vars, objects, config_vars,
                 pc, job, started_at, art, tx, ret, err, call_vars>>

H256s == {u256_to_h256(u) : u \in Hashes}
DefaultDeps == [bootloader |-> u256_to_h256(1), default_aa |-> u256_to_h256(2),
                used |-> Hashes, stored |-> H256s]

Init ==
  /\ headers = 0..NumBlocks
  /\ state_roots = {}
  /\ skip_proof = {}
  /\ deps = DefaultDeps
  /\ status = [b \in Blocks |-> "queued"]
  /\ attempts = [b \in Blocks |-> 0]
  /\ lease_age = [b \in Blocks |-> 0]
  /\ agg_jobs = [b \in Blocks |-> <<>>]
  /\ prover_jobs = [b \in Blocks |-> <<>>]
  /\ objects = {}
  /\ percentage \in Percentages
  /\ last_batch \in {NumBlocks - 1, NumBlocks}
  /\ overflow_checks = FALSE
  /\ pc = [w \in Workers |-> "idle"]
  /\ job = [w \in Workers |-> NoJob]
  /\ started_at = [w \in Workers |-> 0]
  /\ art = [w \in Workers |-> NoArtifacts]
  /\ tx = [w \in Workers |-> EmptyTx]
  /\ ret = [w \in Workers |-> 0]
  /\ err = [w \in Workers |-> "none"]
  /\ arg_block = 0
  /\ result = [call |-> "none"]

Next ==
  \/ Tick
  \/ \E b \in 0..(NumBlocks - 1) : ComputeRoot(b)
  \/ \E w \in Workers :
       \/ GetNextJob(w)
       \/ SamplingGate(w)
       \/ MarkSkipped(w)
       \/ BuildInput(w)
       \/ GenerateWitness(w)
       \/ RunWithFixedParams(w)
       \/ SaveFailureMark(w)
       \/ SaveFailureSkip(w)
       \/ SaveResultNone(w)
       \/ SaveArtifacts(w)
       \/ TxCreateAggregationJobs(w)
       \/ TxInsertProverJobs(w)
       \/ TxMarkSuccessful(w)
       \/ TxCommit(w)
       \/ TxFail(w)

Spec == Init /\ [][Next]_vars

\* ---------------------------------------------------------- fair scheduling
\* Any step of worker w's loop.
WorkerStep(w) ==
  \/ GetNextJob(w)
  \/ SamplingGate(w)
  \/ MarkSkipped(w)
  \/ BuildInput(w)
  \/ GenerateWitness(w)
  \/ RunWithFixedParams(w)
  \/ SaveFailureMark(w)
  \/ SaveFailureSkip(w)
  \/ SaveResultNone(w)
  \/ SaveArtifacts(w)
  \/ TxCreateAggregationJobs(w)
  \/ TxInsertProverJobs(w)
  \/ TxMarkSuccessful(w)
  \/ TxCommit(w)

\* Time passes, and a worker whose loop can take a step eventually takes one.  Nothing
\* is assumed of the stores: a put or a statement may fail every time.
Fairness ==
  /\ WF_vars(Tick)
  /\ \A w \in Workers : WF_vars(WorkerStep(w))

SpecLive == Init /\ [][Next]_vars /\ Fairness

\* ------------------------------------------------- single calls on any store
\* One call of the input builder, and one of the bytecode resolution, on a chain-data
\* store with any headers and roots, or any system-contract hashes, used hashes and
\* stored bytecodes.
BlockIds == {0, 1, 2, MaxBlockId}

InitInput ==
  /\ \/ /\ headers \in SUBSET BlockIds
        /\ state_roots \in SUBSET BlockIds
        /\ overflow_checks \in BOOLEAN
        /\ deps = DefaultDeps
     \/ /\ headers = BlockIds
        /\ state_roots = BlockIds
        /\ overflow_checks = FALSE
        /\ deps \in [bootloader : H256s, default_aa : H256s,
                     used : SUBSET Hashes, stored : SUBSET H256s]
  /\ arg_block \in {0, 1, 2}
  /\ result = [call |-> "none"]
  /\ skip_proof = {}
  /\ status = [b \in Blocks |-> "queued"]
  /\ attempts = [b \in Blocks |-> 0]
  /\ lease_age = [b \in Blocks |-> 0]
  /\ agg_jobs = [b \in Blocks |-> <<>>]
  /\ prover_jobs = [b \in Blocks |-> <<>>]
  /\ objects = {}
  /\ percentage = NoPercentage
  /\ last_batch = NumBlocks
  /\ pc = [w \in Workers |-> "idle"]
  /\ job = [w \in Workers |-> NoJob]
  /\ started_at = [w \in Workers |-> 0]
  /\ art = [w \in Workers |-> NoArtifacts]
  /\ tx = [w \in Workers |-> EmptyTx]
  /\ ret = [w \in Workers |-> 0]
  /\ err = [w \in Workers |-> "none"]

CallBuild ==
  /\ result.call = "none"
  /\ result' = [call |-> "build", outcome |-> build_outcome(arg_block)]
  /\ UNCHANGED <<chain_vars, job_vars, objects, config_vars,
                 pc, job, started_at, art, tx, ret, err, arg_block>>

CallBytecodes ==
  /\ result.call = "none"
  /\ result' = [call |-> "bytecodes", outcome |-> bytecode_outcome(deps),
                resolved |-> used_bytecodes(deps)]
  /\ UNCHANGED <<chain_vars, job_vars, objects, config_vars,
                 pc, job, started_at, art, tx, ret, err, arg_block>>

\* One run of the closure on the same input, with the block listed in
\* dump_arguments_for_blocks and with it not listed.
CallClosure ==
  /\ result.call = "none"
  /\ \E put_fails \in BOOLEAN, engine_panics \in BOOLEAN :
       result' = [call |-> "closure", put_fails |-> put_fails,
                  listed |-> closure_outcome(TRUE, put_fails, engine_panics),
                  unlisted |-> closure_outcome(FALSE, put_fails, engine_panics)]
  /\ UNCHANGED <<chain_vars, job_vars, objects, config_vars,
                 pc, job, started_at, art, tx, ret, err, arg_block>>

NextInput == CallBuild \/ CallBytecodes \/ CallClosure

SpecInput == InitInput /\ [][NextInput]_vars

\* ------------------------------------------------------------------ claims
\* Steps of worker w, told by its position before and after.
Acquires(w) == pc[w] = "idle" /\ pc'[w] = "spawned"
RecordsFailure(w) == pc[w] = "panicked" /\ pc'[w] = "failure_recorded"
EndsFailure(w) == pc[w] = "failure_recorded" /\ pc'[w] = "idle"

C3_NoDoubleInsert ==
  \A b \in Blocks :
    (status[b] = "successful" /\ attempts[b] = 0) =>
      /\ Len(agg_jobs[b]) = 1
      /\ Len(prover_jobs[b]) = CircuitCount(b)

\* Worker w is working on block b under a lease it took less than the timeout ago, and
\* has not yet written a completion (success, failure or skip) for it.
HoldsLease(w, b) ==
  /\ job[w] = b
  /\ pc[w] \in {"spawned", "build", "generate", "engine", "skip_marked", "finished",
                "panicked", "update_database", "tx_aggregation_jobs", "tx_prover_jobs", "tx_marked"}
  /\ pc[w] = "finished" => art[w].some
  /\ started_at[w] <= Timeout

\* C4: at every moment at most one worker owns an unexpired lease on a block's job.
C4_OneLeaseOwner ==
  \A b \in Blocks : Cardinality({w \in Workers : HoldsLease(w, b)}) <= 1

\* C5: a job that is in progress with its lease deadline passed (within the
\* last-block bound and below the attempt cap) is what get_next_job returns, unless an
\* older job is eligible too, although no success or failure was recorded for it.
ExpiredInProgress(b) ==
  /\ status[b] = "in_progress"
  /\ lease_age[b] > Timeout
  /\ b <= last_batch
  /\ attempts[b] < MaxAttempts

NotToBeAcquired(b) ==
  \/ status[b] \in {"successful", "skipped"}
  \/ status[b] = "in_progress" /\ lease_age[b] <= Timeout
  \/ status[b] = "failed" /\ attempts[b] >= MaxAttempts

ObjectsOf(kind, b) == {o \in objects : o[1] = kind /\ o[2] = b}

\* C6: when the completion of a job with artifacts commits, the object store holds
\* exactly one circuit-set, one public-inputs and one scheduler-witness object and one
\* object per flattened circuit for the block; the transaction inserts N prover jobs,
\* N the flattened circuit count, and the count recorded by create_aggregation_jobs is
\* that N.
C6_OneOfEachAndNFanOut ==
  [][ \A w \in Workers :
        (pc[w] = "tx_marked" /\ pc'[w] = "idle") =>
          LET b == job[w]
              n == art[w].circuits
          IN /\ art[w].some
             /\ n = CircuitCount(b)
             /\ \A kind \in {"basic_circuits", "basic_circuits_inputs", "scheduler_witness"} :
                  Cardinality(ObjectsOf(kind, b)) = 1
             /\ Cardinality(ObjectsOf("circuit", b)) = n
             /\ Len(prover_jobs'[b]) = Len(prover_jobs[b]) + n
             /\ Len(agg_jobs'[b]) = Len(agg_jobs[b]) + 1
             /\ agg_jobs'[b][Len(agg_jobs'[b])].number_of_basic_circuits = n
             /\ status'[b] = "successful"
    ]_vars

\* The block with the most circuits completed once.
C6_Witness ==
  \E b \in Blocks :
    /\ CircuitCount(b) = MaxCircuits
    /\ status[b] = "successful"
    /\ Len(agg_jobs[b]) = 1
    /\ Len(prover_jobs[b]) = MaxCircuits
    /\ Cardinality({o \in objects : o[2] = b /\ o # run_with_fixed_params_input_url(b)})
         = 3 + MaxCircuits

\* C7: when the input of block b is built while b-1 has no state root, the build
\* fails with the missing-root error; that attempt writes no artifact and commits
\* nothing, and its save_failure marks the job failed with the attempt count one higher.
C7_MissingRootFailsAttempt ==
  [][ \A w \in Workers :
        LET b == job[w] IN
        /\ (pc[w] = "build" /\ pc'[w] # "build" /\ Pred(b) \notin state_roots) =>
              /\ pc'[w] = "panicked"
              /\ err'[w] = "root_hash_not_computed"
              /\ UNCHANGED <<objects, job_vars>>
        /\ (pc[w] = "panicked" /\ pc'[w] # "panicked") =>
              /\ pc'[w] = "failure_recorded"
              /\ status'[b] = "failed"
              /\ attempts'[b] = attempts[b] + 1
              /\ UNCHANGED <<objects, agg_jobs, prover_jobs>>
        /\ (pc[w] = "failure_recorded" /\ pc'[w] # "failure_recorded") =>
              /\ pc'[w] = "idle"
              /\ UNCHANGED <<objects, job_vars>>
    ]_vars

\* The failure of a build without the predecessor's root is recorded: first attempt.
C7_Witness ==
  \E w \in Workers :
    /\ pc[w] = "failure_recorded"
    /\ err[w] = "root_hash_not_computed"
    /\ Pred(job[w]) \notin state_roots
    /\ status[job[w]] = "failed"
    /\ attempts[job[w]] = 1
    /\ objects = {}

\* C10: with the proving percentage 100 or unset, no draw skips: the gate goes on to
\* the computation, marks no block proof-not-required and marks no job skipped.
C10_NoSkipAtHundredOrUnset ==
  [][ (percentage = NoPercentage \/ percentage = 100) =>
        /\ \A threshold \in Draws : ~should_skip(percentage, threshold)
        /\ \A w \in Workers :
              (pc[w] = "spawned" /\ pc'[w] # "spawned") =>
                /\ pc'[w] = "build"
                /\ skip_proof' = skip_proof
                /\ status' = status
        /\ \A b \in Blocks : status'[b] # "skipped"
    ]_vars

\* With percentage 100 a job went through the gate and its computation finished.
C10_Witness ==
  /\ percentage = 100
  /\ \E w \in Workers : pc[w] = "finished" /\ art[w].some

BuildCalled == result.call = "build"
MissingPredecessorRoot == result.outcome = "root_hash_not_computed"

\* C8 as stated: the builder fails with the missing-predecessor-state error if and
\* only if the state root of b-1 is absent, whatever else is missing.
C8_MissingRootIffRootAbsent ==
  BuildCalled => (MissingPredecessorRoot <=> Pred(arg_block) \notin state_roots)

\* C8, amended: the builder fails with the missing-predecessor-state error if and only
\* if the headers of b and of b-1 are both found (and b-1 does not overflow) and the
\* state root of b-1 is absent; with the root present it never fails with that error.
C8_MissingRootIffHeadersAndRootAbsent ==
  BuildCalled =>
    /\ MissingPredecessorRoot <=>
         /\ arg_block \in headers
         /\ ~(arg_block = 0 /\ overflow_checks)
         /\ Pred(arg_block) \in headers
         /\ Pred(arg_block) \notin state_roots
    /\ Pred(arg_block) \in state_roots => ~MissingPredecessorRoot

\* A call for block 2, both headers found, that ends with the missing-root error.
C8_Witness ==
  /\ BuildCalled
  /\ MissingPredecessorRoot
  /\ arg_block = 2
  /\ {1, 2} \subseteq headers

\* C9: when the count check of generate_witness passes, every used hash other than the
\* bootloader's is a key of the resolved bytecode map.
C9_ResolutionNeverPartial ==
  (result.call = "bytecodes" /\ result.outcome = "ok") =>
    \A u \in deps.used : u # h256_to_u256(deps.bootloader) => u \in result.resolved

\* Steps of worker w through the sampling gate and out of the spawned task.
PassesGate(w) == pc[w] = "spawned" /\ pc'[w] # "spawned"
MarksSkipped(w) == pc[w] = "skip_marked" /\ pc'[w] # "skip_marked"
SavesResult(w) == pc[w] = "finished" /\ pc'[w] # "finished"

\* C11: with the proving percentage 0 every draw skips: the gate marks the block
\* proof-not-required, the job is then marked skipped and the task returns no
\* artifacts, and save_result writes no object and leaves the job store as it is; no
\* object, aggregation job, prover job or successful mark ever appears.
C11_AlwaysSkipAtZero ==
  [][ percentage = 0 =>
        /\ \A threshold \in Draws : should_skip(percentage, threshold)
        /\ \A w \in Workers :
             /\ PassesGate(w) => /\ pc'[w] = "skip_marked"
                                 /\ job[w] \in skip_proof'
             /\ MarksSkipped(w) => /\ pc'[w] = "finished"
                                   /\ status'[job[w]] = "skipped"
                                   /\ ~art'[w].some
             /\ SavesResult(w) => /\ pc'[w] = "idle"
                                  /\ UNCHANGED <<objects, job_vars>>
        /\ objects' = {}
        /\ \A b \in Blocks : /\ agg_jobs'[b] = <<>>
                             /\ prover_jobs'[b] = <<>>
                             /\ status'[b] # "successful"
    ]_vars

\* With percentage 0, every block up to the last one to process was skipped and every
\* worker is back idle after its save_result.
C11_Witness ==
  /\ percentage = 0
  /\ \A b \in Blocks : b <= last_batch => status[b] = "skipped" /\ b \in skip_proof
  /\ last_batch = NumBlocks
  /\ \A w \in Workers : pc[w] = "idle"
  /\ objects = {}

\* The number of draws on which the gate skips a job.
skipped_draws(p) == Cardinality({threshold \in Draws : should_skip(p, threshold)})

\* C12: the draw is over the integers strictly between 0 and 100, and for a configured
\* percentage P in 0..100 the fraction of the draws that skip is (100 - P) / 100.
C12_SkipRate ==
  /\ Draws = {n \in 0..100 : 0 < n /\ n < 100}
  /\ percentage \in 0..100 =>
       100 * skipped_draws(percentage) = (100 - percentage) * Cardinality(Draws)

\* C14: the spawned task ends with no artifacts exactly when the gate skipped the job,
\* and with artifacts when the computation ran to its end; save_result gets what the
\* task ended with.
C14_ArtifactsIffNotSkipped ==
  [][ \A w \in Workers :
        /\ (pc'[w] = "finished" /\ pc[w] # "finished") =>
             /\ pc[w] \in {"skip_marked", "engine"}
             /\ art'[w].some <=> pc[w] = "engine"
             /\ pc[w] = "engine" => art'[w].circuits = CircuitCount(job[w])
        /\ (pc[w] = "spawned" /\ pc'[w] = "skip_marked") => ~art[w].some
        /\ pc[w] = "finished" =>
             /\ art'[w] = art[w] \/ pc'[w] \in {"idle", "crashed"}
             /\ SavesResult(w) =>
                  IF art[w].some THEN pc'[w] \in {"update_database", "crashed"}
                  ELSE pc'[w] = "idle"
    ]_vars

\* One task ended by the gate's skip and one by the computation, both about to be
\* handed to save_result.
C14_Witness ==
  \E w1, w2 \in Workers :
    /\ pc[w1] = "finished" /\ ~art[w1].some /\ status[job[w1]] = "skipped"
    /\ pc[w2] = "finished" /\ art[w2].some /\ art[w2].circuits = CircuitCount(job[w2])

\* save_artifacts of worker w ends on a put that failed.
PutFails(w) ==
  /\ pc[w] = "finished"
  /\ art[w].some
  /\ pc'[w] \notin {"finished", "update_database"}

\* C13: a put of save_artifacts that fails commits nothing and sends the job down
\* the failure path, where save_failure records the error and increments the attempt
\* count; the job is not left in progress with nothing recorded.
C13_PutFailureRecorded ==
  [][ \A w \in Workers :
        PutFails(w) =>
          /\ UNCHANGED <<agg_jobs, prover_jobs>>
          /\ status'[job[w]] # "successful" \/ status[job[w]] = "successful"
          /\ \/ pc'[w] = "panicked" /\ job'[w] = job[w]
             \/ /\ status'[job[w]] = "failed"
                /\ attempts'[job[w]] = attempts[job[w]] + 1
    ]_vars

EnginePanics(w) == pc[w] = "engine" /\ pc'[w] \notin {"engine", "finished"}

\* C16: a panic inside the closure on the blocking pool ends that job's spawned task
\* in error and nothing else: the worker's loop is alive and goes to save_failure for
\* that job, which marks it failed with the attempt count one higher; no other
\* worker's position changes, and no loop ever ends on a panic of the task.
C16_EnginePanicIsJobFailure ==
  [][ \A w \in Workers :
        /\ EnginePanics(w) =>
             /\ pc'[w] = "panicked"
             /\ err'[w] \in {"engine_panic", "dump_arguments_put_failed"}
             /\ job'[w] = job[w]
             /\ UNCHANGED job_vars
             /\ \A v \in Workers \ {w} : pc'[v] = pc[v] /\ job'[v] = job[v]
        /\ (pc[w] = "panicked" /\ pc'[w] # "panicked") =>
             /\ pc'[w] = "failure_recorded"
             /\ status'[job[w]] = "failed"
             /\ attempts'[job[w]] = attempts[job[w]] + 1
             /\ \A v \in Workers \ {w} : pc'[v] = pc[v]
        /\ (pc'[w] = "crashed" /\ pc[w] # "crashed") =>
             pc[w] = "finished" \/ InTransaction(w)
    ]_vars

\* The engine panicked on block 1 and the failure is recorded as its first attempt,
\* the worker being about to go back to get_next_job; the other worker has meanwhile
\* taken the job of block 1 again and is processing it.
C16_Witness ==
  \E w, v \in Workers :
    /\ pc[w] = "failure_recorded"
    /\ err[w] = "engine_panic"
    /\ job[w] = 1
    /\ attempts[1] = 1
    /\ ret[w] = 1
    /\ pc[v] \in {"build", "generate", "engine"}
    /\ job[v] = 1

\* The job of block b is out of the queue for good.
Settled(b) ==
  \/ status[b] \in {"successful", "skipped"}
  \/ status[b] = "failed" /\ attempts[b] >= MaxAttempts /\ b \in skip_proof

\* C17: under fair scheduling every acquired job eventually stops being eligible, by
\* becoming successful, skipped, or failed at the attempt cap with its block marked
\* proof-skipped.
C17_NoPoisonedBlock ==
  \A b \in Blocks : (status[b] = "in_progress") ~> Settled(b)

\* The object keys the job store records for block b.
RecordedLocations(b) ==
  UNION {{agg_jobs[b][i].basic_circuits_url,
          agg_jobs[b][i].basic_circuits_inputs_url,
          agg_jobs[b][i].scheduler_witness_url} : i \in 1..Len(agg_jobs[b])}
    \cup {prover_jobs[b][i] : i \in 1..Len(prover_jobs[b])}

\* C18: every object of save_artifacts is written before the transaction of
\* update_database starts, so every location recorded for a successful job (the three
\* top-level ones and each prover job's) is the key of a stored object.
C18_PersistPrecedesCommit ==
  /\ \A w \in Workers :
       InTransaction(w) =>
         /\ {basic_circuits_url(job[w]), basic_circuits_inputs_url(job[w]),
             scheduler_witness_url(job[w])} \subseteq objects
         /\ \A i \in 1..art[w].circuits :
              circuit_types_and_urls(job[w], art[w].circuits)[i] \in objects
  /\ \A b \in Blocks :
       status[b] = "successful" =>
         /\ RecordedLocations(b) # {}
         /\ RecordedLocations(b) \subseteq objects

\* The last block is successful: three top-level locations and one per circuit are
\* recorded, all of them stored.
C18_Witness ==
  /\ status[NumBlocks] = "successful"
  /\ Cardinality(RecordedLocations(NumBlocks)) = 3 + CircuitCount(NumBlocks)
  /\ RecordedLocations(NumBlocks) \subseteq objects
  /\ \A w \in Workers : job[w] # NumBlocks

\* C19: on the same input the closure ends the same way (the engine's result, or the
\* engine's panic) whether or not the block is listed for the capture of the
\* arguments, also when the put of the captured arguments fails.
C19_DumpDoesNotAffectOutcome ==
  result.call = "closure" => result.listed = result.unlisted

\* C20: once a job is successful no step changes its status, and no step marks the
\* block of a successful job proof-skipped.
C20_SuccessfulIsTerminal ==
  [][ \A b \in Blocks :
        status[b] = "successful" =>
          /\ status'[b] = "successful"
          /\ b \in skip_proof' => b \in skip_proof
    ]_vars

\* C21: a block marked proof-skipped in the chain-data store has no job that is
\* successful with prover jobs inserted, and a job marked skipped has its block
\* marked already.
C21_CrossStoreConsistency ==
  \A b \in Blocks :
    /\ b \in skip_proof => ~(status[b] = "successful" /\ prover_jobs[b] # <<>>)
    /\ status[b] = "skipped" => b \in skip_proof
====
